---------------------------- MODULE Spec2Model ----------------------------
(***************************************************************************)
(* Model of the MediaMTX VOD recorder (src/recorder.py): the monitoring    *)
(* loop of MediaMTXMonitor (poll, start, stop, health sweep), the segment  *)
(* checker thread, the upload queue with its dispatch thread and the       *)
(* upload workers of S3Uploader, the capture children, and shutdown on a   *)
(* termination signal.                                                     *)
(***************************************************************************)
EXTENDS Integers, Sequences, FiniteSets, TLC

\* ------------------------------------------------------------------ bounds
NumStreams == 2        \* stream names the upstream can report
MaxCap == 2            \* largest MAX_CONCURRENT_RECORDINGS drawn at start-up
MaxSessions == 2       \* capture sessions minted in one run
MaxSeg == 2            \* segment files the capture children write in one run
NumWorkers == 2        \* UPLOAD_WORKERS threads of the executor
MaxBadKeys == 1        \* segment files whose puts the object store rejects

\* ------------------------------------------------------- program constants
MaxRetries == 3        \* re-queues of a failed upload
SegDigits == 3         \* segment_%03d

Streams == 1..NumStreams
Files == 0..(MaxSeg - 1)
Sids == 1..MaxSessions
Workers == 1..NumWorkers

VARIABLES
    max_concurrent,   \* Settings.MAX_CONCURRENT_RECORDINGS
    recordings,       \* MediaMTXMonitor.recordings: insertion-ordered dict,
                      \*   a sequence of [key, sid] with distinct keys
    sessions,         \* every RecordingProcess created, indexed by session id
    running,          \* MediaMTXMonitor.running
    pc,               \* position of the main thread
    todo,             \* rest of the list the main thread is iterating
    active_streams,   \* result of get_active_streams() in this tick
    cur,              \* locals of start_stream_recording during its sleep
    ret,              \* loop start_stream_recording returns to
    upload_queue,     \* S3Uploader.upload_queue
    work_items,       \* tasks submitted to the executor, not yet picked up
    workers,          \* task each executor thread runs, and its position
    executor_down,    \* executor.shutdown() has been called
    store,            \* objects put to the bucket
    last_response,    \* the response get_active_streams() parsed (PollSpec)
    h                 \* history: what happened, read by the properties only

vars == << max_concurrent, recordings, sessions, running, pc, todo,
           active_streams, cur, ret, upload_queue, work_items, workers,
           executor_down, store, last_response, h >>

\* ------------------------------------------------------------ sequences
Range(s) == { s[i] : i \in DOMAIN s }

Perms(S) == { p \in [1..Cardinality(S) -> S] :
                 \A i, j \in 1..Cardinality(S) : i # j => p[i] # p[j] }

\* ------------------------------------------------- segment names, sorted()
\* '%03d' % i : at least three digits, most significant first
RECURSIVE Digits(_)
Digits(i) == IF i < 10 THEN << i >> ELSE Append(Digits(i \div 10), i % 10)

SegName(i) ==
    LET d == Digits(i)
    IN  IF Len(d) >= SegDigits THEN d
        ELSE [ k \in 1..(SegDigits - Len(d)) |-> 0 ] \o d

\* string comparison of two names
RECURSIVE LexLess(_, _)
LexLess(a, b) ==
    IF a = << >> THEN b # << >>
    ELSE IF b = << >> THEN FALSE
    ELSE IF Head(a) # Head(b) THEN Head(a) < Head(b)
    ELSE LexLess(Tail(a), Tail(b))

\* sorted(output_dir.glob('segment_*')) : ascending by name
RECURSIVE SortedFiles(_)
SortedFiles(S) ==
    IF S = {} THEN << >>
    ELSE LET m == CHOOSE x \in S :
                     \A y \in S \ {x} : LexLess(SegName(x), SegName(y))
         IN  << m >> \o SortedFiles(S \ {m})

\* s[:-1]
AllButLast(s) == IF s = << >> THEN << >> ELSE SubSeq(s, 1, Len(s) - 1)


\* ------------------------------------------------------ upstream responses
\* JSON values of an item's fields as the parser hands them to the code:
\* "absent" is a missing key (item.get() gives None), "empty" is {}.
ReadyValues == { "true", "false", "absent" }
SourceValues == { "null", "empty", "object" }

Items == [ name : Streams, ready : ReadyValues, source : SourceValues ]

\* item lists with one item per reported name, in any order
ItemLists ==
    UNION { { s \in [1..n -> Items] :
                \A i, j \in 1..n : i # j => s[i].name # s[j].name }
            : n \in 0..NumStreams }

Responses ==
    { [ kind |-> "ok", items |-> l ] : l \in ItemLists }
    \cup { [ kind |-> k, items |-> << >> ]
           : k \in { "transport_error", "http_error", "malformed" } }

\* Python truth value of a parsed JSON value
Truthy(v) == v \in { "true", "object" }

\* the list comprehension of get_active_streams
RECURSIVE ReadyAndSourced(_)
ReadyAndSourced(items) ==
    IF items = << >> THEN << >>
    ELSE LET item == Head(items)
             rest == ReadyAndSourced(Tail(items))
         IN  IF Truthy(item.ready) /\ Truthy(item.source)
             THEN << item.name >> \o rest
             ELSE rest

get_active_streams(response) ==
    IF response.kind = "ok" /\ response.items # << >>
    THEN ReadyAndSourced(response.items)
    ELSE << >>

\* ------------------------------------------------ the recordings dict
\* stream_name in self.recordings
InTable(tbl, k) == \E i \in DOMAIN tbl : tbl[i].key = k

\* self.recordings[k]
Lookup(tbl, k) == tbl[CHOOSE i \in DOMAIN tbl : tbl[i].key = k].sid

\* self.recordings[k] = recording
DictSet(tbl, k, sid) ==
    IF \E i \in DOMAIN tbl : tbl[i].key = k
    THEN [ i \in DOMAIN tbl |->
             IF tbl[i].key = k THEN [ key |-> k, sid |-> sid ] ELSE tbl[i] ]
    ELSE Append(tbl, [ key |-> k, sid |-> sid ])

\* del self.recordings[k]
DictDel(tbl, k) == SelectSeq(tbl, LAMBDA e : e.key # k)

\* the guard left out
NeverRecorded(tbl, stream_name) == FALSE

\* "if stream_name in self.recordings" of start_stream_recording, and
\* "if stream_name not in self.recordings" of run()
AlreadyRecorded(tbl, stream_name) == InTable(tbl, stream_name)

\* the comparison off by one
AtCapOffByOne(tbl, cap) == Len(tbl) > cap

\* len(self.recordings) >= MAX_CONCURRENT_RECORDINGS
AtCap(tbl, cap) == Len(tbl) >= cap

\* ------------------------------------------------------------- sessions
\* RecordingProcess(...) as FFmpegRecorder.start_recording builds it, with the
\* child it spawned and the output directory it created
NewRecording(stream_name, session_id) ==
    [ stream_name    |-> stream_name,
      session_id     |-> session_id,
      child          |-> "running",     \* process.poll() is None
      uploaded_files |-> {},
      is_active      |-> TRUE,
      next_seg       |-> 0,             \* index of the child's next segment
      files          |-> {} ]           \* segment files in output_dir

\* no kill when the polite quit fails
StopWithoutKill(child, quit_ok) ==
    IF child = "running" /\ quit_ok THEN "exited" ELSE child

\* FFmpegRecorder.stop_recording: the child's state afterwards
stop_recording(child, quit_ok) ==
    IF child = "running"
    THEN IF quit_ok THEN "exited"       \* 'q' written, wait(timeout=5) ok
         ELSE "exited"                  \* kill(); wait()
    ELSE child

\* ----------------------------------------------------------- upload tasks
\* the dict queue_upload puts
NewTask(file, stream_name, session_id) ==
    [ file |-> file, stream_name |-> stream_name,
      session_id |-> session_id, retry_count |-> 0 ]

\* queue_upload for each file of a list, in order
RECURSIVE QueueAll(_, _, _, _)
QueueAll(q, files, stream_name, session_id) ==
    IF files = << >> THEN q
    ELSE QueueAll(Append(q, NewTask(Head(files), stream_name, session_id)),
                  Tail(files), stream_name, session_id)

\* one retry too many
MayRetryOnceMore(task) == task.retry_count <= MaxRetries

\* task.get('retry_count', 0) < 3
MayRetry(task) == task.retry_count < MaxRetries

Idle == [ state |-> "idle" ]

\* the segment file a task is for
FileOf(task) == << task.session_id, task.file >>

\* ---------------------------------------------------------------- history
NoCounts == [ s \in Sids |-> [ f \in Files |-> 0 ] ]

Bump(counts, sid, fs) ==
    [ counts EXCEPT ![sid] =
        [ f \in Files |-> IF f \in fs THEN @[f] + 1 ELSE @[f] ] ]

InitHistory ==
    [ by_detector |-> NoCounts,   \* tasks the segment checker queued
      by_stop     |-> NoCounts,   \* tasks stop_stream_recording queued
      ended       |-> [ s \in Sids |-> "no" ],  \* how it left the table, or
                                                \*   "failed": never entered
      dropped     |-> {},         \* tasks given up after the retries
      vanished    |-> {},         \* tasks whose file was gone
      poll_failed |-> FALSE,      \* this tick's poll did not succeed
      rejected    |-> {},         \* files whose put the store has rejected
      lost        |-> {} ]        \* tasks the dispatch thread could not submit

\* ------------------------------------------------------------------- Init
Init ==
    /\ max_concurrent \in 1..MaxCap
    /\ recordings = << >>
    /\ sessions = << >>
    /\ running = TRUE
    /\ pc = "poll"
    /\ todo = << >>
    /\ active_streams = << >>
    /\ cur = 0
    /\ ret = "poll"
    /\ upload_queue = << >>
    /\ work_items = << >>
    /\ workers = [ w \in Workers |-> Idle ]
    /\ executor_down = FALSE
    /\ store = {}
    /\ last_response = [ kind |-> "none", items |-> << >> ]
    /\ h = InitHistory

\* ------------------------------------------------ the monitoring loop
Alive == pc # "done"                 \* the process has not exited

KeyList(tbl) == [ i \in DOMAIN tbl |-> tbl[i].key ]

\* what get_active_streams() can return, and whether the poll had failed
PollOutcomes ==
    { << get_active_streams(r), r.kind # "ok" >> : r \in Responses }

\* run(): active_streams = self.get_active_streams()
Poll ==
    /\ pc = "poll"
    /\ \E o \in PollOutcomes :
         /\ active_streams' = o[1]
         /\ h' = [ h EXCEPT !.poll_failed = o[2] ]
    /\ todo' = active_streams'
    /\ pc' = "starts"
    /\ UNCHANGED << max_concurrent, recordings, sessions, running, cur, ret,
                    upload_queue, work_items, workers, executor_down, store,
                    last_response >>

\* start_stream_recording up to its time.sleep(2): the two guards, then the
\* session id and FFmpegRecorder.start_recording
StartStream(tbl, stream_name, back) ==
    IF AlreadyRecorded(tbl, stream_name) \/ AtCap(tbl, max_concurrent)
    THEN /\ pc' = back
         /\ UNCHANGED << sessions, cur, ret >>
    ELSE /\ Len(sessions) < MaxSessions
         /\ sessions' = Append(sessions,
                               NewRecording(stream_name, Len(sessions) + 1))
         /\ cur' = Len(sessions) + 1
         /\ ret' = back
         /\ pc' = "probe"

\* run(): for stream_name in active_streams: if not recorded, start it
StartNext ==
    /\ pc = "starts"
    /\ IF todo = << >>
       THEN /\ pc' = "stops"
            /\ todo' = KeyList(recordings)
            /\ UNCHANGED << sessions, cur, ret >>
       ELSE /\ todo' = Tail(todo)
            /\ IF AlreadyRecorded(recordings, Head(todo))
               THEN UNCHANGED << pc, sessions, cur, ret >>
               ELSE StartStream(recordings, Head(todo), "starts")
    /\ UNCHANGED << max_concurrent, recordings, running, active_streams,
                    upload_queue, work_items, workers, executor_down, store,
                    last_response, h >>

\* the probe left out
NeverDiedImmediately(rec) == FALSE

\* recording.process.poll() is not None, after the time.sleep(2)
DiedImmediately(rec) == rec.child # "running"

\* start_stream_recording after its time.sleep(2): the liveness probe and
\* the registration
Probe ==
    /\ pc = "probe"
    /\ IF DiedImmediately(sessions[cur])
       THEN /\ UNCHANGED recordings
            /\ h' = [ h EXCEPT !.ended[cur] = "failed" ]
       ELSE /\ recordings' =
                  DictSet(recordings, sessions[cur].stream_name, cur)
            /\ UNCHANGED h
    /\ pc' = ret
    /\ cur' = 0
    /\ ret' = "poll"
    /\ UNCHANGED << max_concurrent, sessions, running, todo, active_streams,
                    upload_queue, work_items, workers, executor_down,
                    store, last_response >>

\* the hold-back rule of the segment checker applied to the stop as well
RemainingButLast(files, order) == AllButLast(SortedFiles(files))

\* remaining_files = list(output_dir.glob(...)): every file of the directory,
\* in the order the directory lists them
RemainingFiles(files, order) == order

\* stop_stream_recording(k): the table, the sessions and the upload queue it
\* leaves.  quit_ok: the child obeyed 'q' within 5 seconds; order: the order
\* in which glob lists the directory.
stop_stream_recording(tbl, ss, q, k, quit_ok, order) ==
    IF ~InTable(tbl, k)
    THEN [ recordings |-> tbl, sessions |-> ss, upload_queue |-> q ]
    ELSE LET sid == Lookup(tbl, k)
             rec == ss[sid]
         IN  [ recordings |-> DictDel(tbl, k),
               sessions |-> [ ss EXCEPT
                    ![sid].is_active = FALSE,
                    ![sid].child = stop_recording(rec.child, quit_ok) ],
               upload_queue |->
                    QueueAll(q, RemainingFiles(rec.files, order),
                             k, rec.session_id) ]

\* a call of stop_stream_recording(k) by the main thread
StopStream(k) ==
    IF ~InTable(recordings, k)
    THEN UNCHANGED << recordings, sessions, upload_queue, h >>
    ELSE LET sid == Lookup(recordings, k)
             rec == sessions[sid]
         IN  \E quit_ok \in BOOLEAN, order \in Perms(rec.files) :
               LET r == stop_stream_recording(recordings, sessions,
                                              upload_queue, k, quit_ok, order)
               IN  /\ sessions' = r.sessions
                   /\ upload_queue' = r.upload_queue
                   /\ recordings' = r.recordings
                   /\ h' = [ h EXCEPT
                         !.by_stop = Bump(@, sid,
                              Range(RemainingFiles(rec.files, order))),
                         !.ended[sid] = "stop" ]

\* run(): for stream_name in list(self.recordings.keys()): stop if not active
StopNext ==
    /\ pc = "stops"
    /\ IF todo = << >>
       THEN /\ pc' = "health"
            /\ todo' = recordings          \* list(self.recordings.items())
            /\ UNCHANGED << recordings, sessions, upload_queue, h >>
       ELSE /\ todo' = Tail(todo)
            /\ pc' = pc
            /\ IF Head(todo) \in Range(active_streams)
               THEN UNCHANGED << recordings, sessions, upload_queue, h >>
               ELSE StopStream(Head(todo))
    /\ UNCHANGED << max_concurrent, running, active_streams, cur, ret,
                    work_items, workers, executor_down, store, last_response >>

\* process.poll() is not None
Exited(rec) == rec.child # "running"

\* monitor_process_health(): one iteration of its loop; after the last one
\* run() sleeps POLLING_INTERVAL and polls again
HealthNext ==
    /\ pc = "health"
    /\ IF todo = << >>
       THEN /\ pc' = "poll"
            /\ active_streams' = << >>
            /\ h' = [ h EXCEPT !.poll_failed = FALSE ]
            /\ UNCHANGED << todo, recordings, sessions, cur, ret >>
       ELSE /\ todo' = Tail(todo)
            /\ IF Exited(sessions[Head(todo).sid])
               THEN /\ recordings' = DictDel(recordings, Head(todo).key)
                    /\ h' = [ h EXCEPT !.ended[Head(todo).sid] = "crash" ]
                    /\ StartStream(recordings', Head(todo).key, "health")
               ELSE UNCHANGED << pc, recordings, sessions, cur, ret, h >>
            /\ UNCHANGED active_streams
    /\ UNCHANGED << max_concurrent, running, upload_queue,
                    work_items, workers, executor_down, store, last_response >>

\* ------------------------------------------------------------- shutdown
\* SIGINT or SIGTERM: signal_handler runs shutdown() on the main thread, in
\* place of whatever run() was doing, and ends with sys.exit(0)
Signal ==
    /\ pc \in { "poll", "starts", "probe", "stops", "health" }
    /\ running' = FALSE
    /\ pc' = "sd_stops"
    /\ todo' = KeyList(recordings)
    /\ active_streams' = << >>           \* the frames of run() are left
    /\ cur' = 0
    /\ ret' = "poll"
    /\ h' = [ h EXCEPT !.poll_failed = FALSE ]
    /\ UNCHANGED << max_concurrent, recordings, sessions, upload_queue,
                    work_items, workers, executor_down, store,
                    last_response >>

\* shutdown(): for stream_name in list(self.recordings.keys()): stop it
ShutdownStopNext ==
    /\ pc = "sd_stops"
    /\ IF todo = << >>
       THEN /\ pc' = "drain_wait"
            /\ UNCHANGED << todo, recordings, sessions, upload_queue, h >>
       ELSE /\ todo' = Tail(todo)
            /\ pc' = pc
            /\ StopStream(Head(todo))
    /\ UNCHANGED << max_concurrent, running, active_streams, cur, ret,
                    work_items, workers, executor_down, store, last_response >>

\* shutdown(): while not upload_queue.empty(): sleep(1); then
\* executor.shutdown(wait=True) is entered
DrainWait ==
    /\ pc = "drain_wait"
    /\ upload_queue = << >>
    /\ executor_down' = TRUE
    /\ pc' = "exec_shutdown"
    /\ UNCHANGED << max_concurrent, recordings, sessions, running, todo,
                    active_streams, cur, ret, upload_queue, work_items,
                    workers, store, last_response, h >>

\* executor.shutdown(wait=True) returns once every submitted task has run;
\* then sys.exit(0)
ExecutorJoin ==
    /\ pc = "exec_shutdown"
    /\ work_items = << >>
    /\ \A w \in Workers : workers[w] = Idle
    /\ pc' = "done"
    /\ UNCHANGED << max_concurrent, recordings, sessions, running, todo,
                    active_streams, cur, ret, upload_queue, work_items,
                    workers, executor_down, store, last_response, h >>

\* ------------------------------------------------- the segment checker
\* every segment file, the last one too
CandidatesWithLast(rec) ==
    SelectSeq(SortedFiles(rec.files), LAMBDA f : f \notin rec.uploaded_files)

\* segment_files[:-1] that are not in uploaded_files
Candidates(rec) ==
    LET segment_files == SortedFiles(rec.files)
    IN  IF Len(segment_files) <= 1 THEN << >>
        ELSE SelectSeq(AllButLast(segment_files),
                       LAMBDA f : f \notin rec.uploaded_files)

\* check_completed_segments(), one session of its loop.  old is the set of
\* files whose age is above 10 seconds at this scan.
CheckCompletedSegments(k) ==
    /\ Alive
    /\ InTable(recordings, k)
    /\ LET sid == Lookup(recordings, k)
           rec == sessions[sid]
       IN  \E old \in SUBSET Range(Candidates(rec)) :
             LET queued == SelectSeq(Candidates(rec), LAMBDA f : f \in old)
             IN  /\ old # {}
                 /\ sessions' = [ sessions EXCEPT
                       ![sid].uploaded_files = @ \cup old ]
                 /\ upload_queue' =
                       QueueAll(upload_queue, queued, k, rec.session_id)
                 /\ h' = [ h EXCEPT !.by_detector = Bump(@, sid, old) ]
    /\ UNCHANGED << max_concurrent, recordings, running, pc, todo,
                    active_streams, cur, ret, work_items, workers,
                    executor_down, store, last_response >>

\* ---------------------------------------------------- the upload pipeline
\* process_queue(): task = upload_queue.get(); executor.submit(upload_file,
\* task).  submit raises after executor.shutdown(); the except clause logs it.
ProcessQueue ==
    /\ Alive
    /\ upload_queue # << >>
    /\ upload_queue' = Tail(upload_queue)
    /\ IF executor_down
       THEN /\ h' = [ h EXCEPT !.lost = @ \cup { FileOf(Head(upload_queue)) } ]
            /\ UNCHANGED work_items
       ELSE /\ work_items' = Append(work_items, Head(upload_queue))
            /\ UNCHANGED h
    /\ UNCHANGED << max_concurrent, recordings, sessions, running, pc, todo,
                    active_streams, cur, ret, workers, executor_down, store,
                    last_response >>

OnDisk(task) == task.file \in sessions[task.session_id].files

ObjectKey(task) == << task.stream_name, task.session_id, task.file >>

\* upload_file(task) up to the existence check, after its time.sleep(2).  The
\* executor's threads are interchangeable: the first idle one takes the task.
WorkerBegin(w) ==
    /\ Alive
    /\ workers[w] = Idle
    /\ \A v \in Workers : v < w => workers[v] # Idle
    /\ work_items # << >>
    /\ work_items' = Tail(work_items)
    /\ IF OnDisk(Head(work_items))
       THEN /\ workers' = [ workers EXCEPT
                  ![w] = [ state |-> "put", task |-> Head(work_items) ] ]
            /\ UNCHANGED h
       ELSE /\ h' = [ h EXCEPT !.vanished = @ \cup { FileOf(Head(work_items)) } ]
            /\ UNCHANGED workers
    /\ UNCHANGED << max_concurrent, recordings, sessions, running, pc, todo,
                    active_streams, cur, ret, upload_queue, executor_down,
                    store, last_response >>

\* the task upload_file puts back after a failure
Retried(task) == [ task EXCEPT !.retry_count = @ + 1 ]

\* s3_client.upload_file raises: the file is gone, or the store rejects the put
PutFails(task) ==
    \/ ~OnDisk(task)
    \/ FileOf(task) \in h.rejected
    \/ Cardinality(h.rejected) < MaxBadKeys

Rejected(task) ==
    IF OnDisk(task) THEN [ h EXCEPT !.rejected = @ \cup { FileOf(task) } ]
    ELSE h

\* the put left out
NotUploaded(st, task) == st

\* the bucket after s3_client.upload_file(file, bucket, s3_key) succeeded
Uploaded(st, task) == st \cup { ObjectKey(task) }

\* upload_file(task), s3_client.upload_file: the put succeeds, or it raises
\* and the except clause puts the task back or gives it up
WorkerPut(w) ==
    /\ Alive
    /\ workers[w] # Idle
    /\ workers[w].state = "put"
    /\ LET task == workers[w].task
       IN  \/ /\ OnDisk(task)
              /\ store' = Uploaded(store, task)
              /\ workers' = [ workers EXCEPT ![w].state = "unlink" ]
              /\ UNCHANGED << upload_queue, h >>
           \/ /\ PutFails(task)
              /\ workers' = [ workers EXCEPT ![w] = Idle ]
              /\ IF MayRetry(task)
                 THEN /\ upload_queue' = Append(upload_queue, Retried(task))
                      /\ h' = Rejected(task)
                 ELSE /\ h' = [ Rejected(task) EXCEPT
                                  !.dropped = @ \cup { FileOf(task) } ]
                      /\ UNCHANGED upload_queue
              /\ UNCHANGED store
    /\ UNCHANGED << max_concurrent, recordings, sessions, running, pc, todo,
                    active_streams, cur, ret, work_items, executor_down,
                    last_response >>

\* upload_file(task), file_path.unlink() after the put: the file is removed;
\* if it is gone already the error is logged
WorkerUnlink(w) ==
    /\ Alive
    /\ workers[w] # Idle
    /\ workers[w].state = "unlink"
    /\ sessions' = [ sessions EXCEPT
          ![workers[w].task.session_id].files = @ \ { workers[w].task.file } ]
    /\ workers' = [ workers EXCEPT ![w] = Idle ]
    /\ UNCHANGED << max_concurrent, recordings, running, pc, todo,
                    active_streams, cur, ret, upload_queue, work_items,
                    executor_down, store, last_response, h >>

\* ------------------------------------------------------ capture children
RECURSIVE SumSegs(_)
SumSegs(ss) == IF ss = << >> THEN 0 ELSE Head(ss).next_seg + SumSegs(Tail(ss))

\* segment files written so far, by all children
Written == SumSegs(sessions)

\* the child opens its next segment file
ChildWrite(sid) ==
    /\ Alive
    /\ sid \in DOMAIN sessions
    /\ sessions[sid].child = "running"
    /\ Written < MaxSeg
    /\ sessions' = [ sessions EXCEPT
          ![sid].files = @ \cup { sessions[sid].next_seg },
          ![sid].next_seg = @ + 1 ]
    /\ UNCHANGED << max_concurrent, recordings, running, pc, todo,
                    active_streams, cur, ret, upload_queue, work_items,
                    workers, executor_down, store, last_response, h >>

\* the child exits by itself (its input ended, or it crashed)
ChildExit(sid) ==
    /\ Alive
    /\ sid \in DOMAIN sessions
    /\ sessions[sid].child = "running"
    /\ sessions' = [ sessions EXCEPT ![sid].child = "exited" ]
    /\ UNCHANGED << max_concurrent, recordings, running, pc, todo,
                    active_streams, cur, ret, upload_queue, work_items,
                    workers, executor_down, store, last_response, h >>

\* ---------------------------------------------------------- specification
Next ==
    \/ Poll
    \/ StartNext
    \/ Probe
    \/ StopNext
    \/ HealthNext
    \/ Signal
    \/ ShutdownStopNext
    \/ DrainWait
    \/ ExecutorJoin
    \/ \E k \in Streams : CheckCompletedSegments(k)
    \/ ProcessQueue
    \/ \E w \in Workers : WorkerBegin(w)
    \/ \E w \in Workers : WorkerPut(w)
    \/ \E w \in Workers : WorkerUnlink(w)
    \/ \E sid \in Sids : ChildWrite(sid)
    \/ \E sid \in Sids : ChildExit(sid)

Spec == Init /\ [][Next]_vars

\* get_active_streams() alone, called again and again with any response
PollOnce ==
    /\ pc = "poll"
    /\ \E r \in Responses :
         /\ last_response' = r
         /\ active_streams' = get_active_streams(r)
    /\ UNCHANGED << max_concurrent, recordings, sessions, running, pc, todo,
                    cur, ret, upload_queue, work_items, workers,
                    executor_down, store, h >>

PollSpec == Init /\ [][PollOnce]_vars

\* ------------------------------------------------------------ properties
Registered(sid) == \E i \in DOMAIN recordings : recordings[i].sid = sid

\* a session counts as active while it is in the table or its child runs
ActiveSessions(name) ==
    { sid \in DOMAIN sessions :
        /\ sessions[sid].stream_name = name
        /\ Registered(sid) \/ sessions[sid].child = "running" }

\* tasks in the queue, submitted to the executor, or being run
Pending ==
    Range(upload_queue) \cup Range(work_items)
      \cup { workers[w].task : w \in { v \in Workers : workers[v] # Idle } }

\* tasks the producers created for a segment file
Produced(sid, f) == h.by_detector[sid][f] + h.by_stop[sid][f]

\* C1: in every reachable state no stream name has more than one active
\* capture session: at most one entry of the table carries the name, and no
\* second session of that name has a capture child running.
C1_OneSessionPerStream ==
    \A name \in Streams :
      /\ Cardinality(ActiveSessions(name)) <= 1
      /\ Cardinality({ i \in DOMAIN recordings :
                         sessions[recordings[i].sid].stream_name = name }) <= 1

\* a stream whose crashed session was swept has a new registered session
C1_Witness ==
    \E a, b \in DOMAIN sessions :
      /\ sessions[a].stream_name = sessions[b].stream_name
      /\ h.ended[a] = "crash"
      /\ Registered(b)
      /\ sessions[b].child = "running"

\* C2: in every reachable state the table holds at most
\* MAX_CONCURRENT_RECORDINGS sessions.
C2_AtMostCapSessions == Len(recordings) <= max_concurrent

\* the table is full and the start loop has left a live stream unrecorded
\* without spawning a child for it
C2_Witness ==
    /\ pc = "stops"
    /\ Len(recordings) = max_concurrent
    /\ Len(sessions) = max_concurrent
    /\ \E name \in Range(active_streams) : ~InTable(recordings, name)

\* C3: the producers (segment checker, stop, shutdown) create at most one
\* upload task for a segment file of a session.
C3_OneTaskPerSegment ==
    \A sid \in Sids, f \in Files : Produced(sid, f) <= 1

\* C4: in the stop loop of a tick whose poll failed the session table does
\* not change.
C4_FailedPollKeepsTable ==
    [][ (h.poll_failed /\ pc = "stops") => recordings' = recordings ]_vars

\* C5: once shutdown has completed, every segment file of a session that was
\* stopped by stop_stream_recording is uploaded or dropped after its retries,
\* and none is left in the output directory.
C5_CleanStopDrained ==
    pc = "done" =>
      \A sid \in DOMAIN sessions :
        h.ended[sid] = "stop" =>
          /\ sessions[sid].files = {}
          /\ \A f \in 0..(sessions[sid].next_seg - 1) :
               \/ << sessions[sid].stream_name, sid, f >> \in store
               \/ << sid, f >> \in h.dropped

\* C6: every segment file left in the output directory of a session whose
\* child died while its stream was live has had an upload task created.
C6_CrashedFilesQueued ==
    \A sid \in DOMAIN sessions :
      h.ended[sid] = "crash" =>
        \A f \in sessions[sid].files : Produced(sid, f) >= 1

C8_LastFileHeldBack ==
    [][ \A sid \in DOMAIN sessions : \A f \in Files :
          h'.by_detector[sid][f] > h.by_detector[sid][f] =>
            LET segment_files == SortedFiles(sessions[sid].files)
            IN  /\ Len(segment_files) > 1
                /\ f # segment_files[Len(segment_files)]
                /\ \E i \in DOMAIN upload_queue' :
                     /\ i > Len(upload_queue)
                     /\ FileOf(upload_queue'[i]) = << sid, f >> ]_vars

\* the segment checker has queued the first file of a registered session and
\* holds back the second
C8_Witness ==
    \E sid \in DOMAIN sessions :
      /\ Registered(sid)
      /\ h.by_detector[sid][0] = 1
      /\ 1 \in sessions[sid].files
      /\ h.by_detector[sid][1] = 0

\* C9: when stop_stream_recording has removed a session, every segment file
\* in its output directory has been queued by that stop, and its task is
\* still on its way unless it was dropped after its retries or could not be
\* submitted.
C9_StopQueuesEveryFile ==
    \A sid \in DOMAIN sessions :
      h.ended[sid] = "stop" =>
        \A f \in sessions[sid].files :
          /\ h.by_stop[sid][f] >= 1
          /\ \/ \E t \in Pending : FileOf(t) = << sid, f >>
             \/ << sid, f >> \in h.dropped \cup h.lost

\* a stopped session whose last file, never queued by the segment checker,
\* was queued by the stop
C9_Witness ==
    \E sid \in DOMAIN sessions :
      /\ h.ended[sid] = "stop"
      /\ sessions[sid].files = { 0, 1 }
      /\ h.by_detector[sid][1] = 0
      /\ h.by_stop[sid][1] = 1

\* C10: of a successful poll, an item's name is in the result exactly when
\* its ready is true and its source is not null.
C10_LiveIffReadyAndSourced ==
    last_response.kind = "ok" =>
      \A i \in DOMAIN last_response.items :
        LET item == last_response.items[i]
        IN  item.name \in Range(active_streams)
              <=> (item.ready = "true" /\ item.source # "null")

\* tasks a step has put at the back of the upload queue
Appended(i) == i \in (Len(upload_queue) + 1)..Len(upload_queue')

\* C11: whenever a task for a segment of a session enters the upload queue
\* while the session is in the table, the file is in the session's
\* uploaded_files; and uploaded_files never loses a file.
C11_DispatchedBeforeQueued ==
    /\ [][ \A i \in DOMAIN upload_queue' :
             Appended(i) /\ Registered(upload_queue'[i].session_id) =>
               upload_queue'[i].file
                 \in sessions'[upload_queue'[i].session_id].uploaded_files
         ]_vars
    /\ [][ \A sid \in DOMAIN sessions :
             sessions[sid].uploaded_files
               \subseteq sessions'[sid].uploaded_files ]_vars

\* C12: within a tick the stops come before the starts: the start loop never
\* turns a live stream away while the table still holds a session whose
\* stream is absent from the poll result.
C12_StopsBeforeStarts ==
    [][ ( /\ pc = "starts" /\ pc' = "starts"
          /\ todo # << >> /\ todo' = Tail(todo)
          /\ ~InTable(recordings, Head(todo))
          /\ Len(sessions') = Len(sessions) )
        => \A i \in DOMAIN recordings :
             recordings[i].key \in Range(active_streams) ]_vars

\* C13: the health sweep removes the session of an exited child and starts no
\* session itself; the replacement is left to a later tick.
C13_NoRestartInSweep ==
    [][ pc = "health" => Len(sessions') = Len(sessions) ]_vars

\* C14: a scan of a session whose directory holds two or fewer segment files
\* queues nothing and leaves uploaded_files as it was.
C14_TwoOrFewerFilesIdle ==
    [][ \A sid \in DOMAIN sessions :
          (Registered(sid) /\ Cardinality(sessions[sid].files) <= 2) =>
            /\ h'.by_detector[sid] = h.by_detector[sid]
            /\ sessions'[sid].uploaded_files = sessions[sid].uploaded_files
      ]_vars

\* C15: shutdown completes only with the upload queue empty and no worker
\* holding a task, and without a task having been discarded on the way.
C15_DrainLeavesNothing ==
    pc = "done" =>
      /\ upload_queue = << >>
      /\ work_items = << >>
      /\ \A w \in Workers : workers[w] = Idle
      /\ h.lost = {}

\* C16: a start whose child has exited at the probe leaves the table as it
\* was and the session is never registered; and the start loop of a tick
\* that sees an unrecorded stream live, below the cap, spawns a child for it.
C16_FailedProbeNotRegistered ==
    /\ [](\A sid \in DOMAIN sessions :
            h.ended[sid] = "failed" => ~Registered(sid))
    /\ [][ ( /\ pc = "probe" /\ pc' \in { "starts", "health" }
             /\ sessions[cur].child # "running" )
           => recordings' = recordings ]_vars
    /\ [][ ( /\ pc = "starts" /\ todo # << >> /\ todo' = Tail(todo)
             /\ running'                 \* no signal has cut the loop short
             /\ ~InTable(recordings, Head(todo))
             /\ Len(recordings) < max_concurrent )
           => /\ pc' = "probe"
              /\ Len(sessions') = Len(sessions) + 1
              /\ sessions'[cur'].stream_name = Head(todo)
              /\ sessions'[cur'].child = "running" ]_vars

\* a stream whose first start failed at the probe is recorded by a session
\* started later
C16_Witness ==
    \E a, b \in DOMAIN sessions :
      /\ sessions[a].stream_name = sessions[b].stream_name
      /\ h.ended[a] = "failed"
      /\ a < b
      /\ Registered(b)

\* C17: the tasks the segment checker and the stop create for a session enter
\* the queue in the order of their file names: none enters after a task for
\* a file whose name sorts later.
C17_QueuedInNameOrder ==
    [][ \A i \in DOMAIN upload_queue' :
          (Appended(i) /\ upload_queue'[i].retry_count = 0) =>
            LET t == upload_queue'[i]
            IN  /\ \A g \in Files :
                     Produced(t.session_id, g) >= 1 =>
                       ~LexLess(SegName(t.file), SegName(g))
                /\ \A j \in DOMAIN upload_queue' :
                     ( /\ Appended(j) /\ j < i
                       /\ upload_queue'[j].session_id = t.session_id )
                     => ~LexLess(SegName(t.file),
                                 SegName(upload_queue'[j].file)) ]_vars

\* C18: a session stopped by stop_stream_recording has its child exited,
\* whether or not the child obeyed the quit; and stopping the same stream or
\* the same session once more changes neither the child, nor the upload
\* queue, nor the table.
C18_StopExitsAndIsIdempotent ==
    /\ \A sid \in DOMAIN sessions :
         h.ended[sid] = "stop" => sessions[sid].child = "exited"
    /\ \A k \in Streams, quit_ok \in BOOLEAN, again_ok \in BOOLEAN :
         LET files == IF InTable(recordings, k)
                      THEN sessions[Lookup(recordings, k)].files ELSE {}
         IN  \A order \in Perms(files) :
               LET once == stop_stream_recording(recordings, sessions,
                              upload_queue, k, quit_ok, order)
                   twice == stop_stream_recording(once.recordings,
                              once.sessions, once.upload_queue, k,
                              again_ok, order)
               IN  /\ twice = once
                   /\ InTable(recordings, k) =>
                        LET child ==
                              once.sessions[Lookup(recordings, k)].child
                        IN  /\ child = "exited"
                            /\ stop_recording(child, again_ok) = child

\* one session has been stopped while its child was running, and another
\* one is still in the table
C18_Witness ==
    /\ pc = "stops"
    /\ \E a, b \in DOMAIN sessions :
         /\ h.ended[a] = "stop"
         /\ sessions[a].child = "exited"
         /\ Registered(b)
         /\ sessions[b].child = "running"

\* files the child of a session has written
WrittenBy(sid) == 0..(sessions[sid].next_seg - 1)

\* C19: a segment file that is gone from its directory has an object in the
\* bucket, and a step that removes a file finds its object there.
C19_DeletedOnlyAfterPut ==
    /\ [](\A sid \in DOMAIN sessions :
            \A f \in WrittenBy(sid) \ sessions[sid].files :
              << sessions[sid].stream_name, sid, f >> \in store)
    /\ [][ \A sid \in DOMAIN sessions :
             \A f \in sessions[sid].files \ sessions'[sid].files :
               << sessions[sid].stream_name, sid, f >> \in store ]_vars

\* a file for which two tasks were created is uploaded and removed while a
\* second worker still holds a task for it
C19_Witness ==
    \E sid \in DOMAIN sessions :
      \E f \in WrittenBy(sid) \ sessions[sid].files :
        /\ Produced(sid, f) >= 2
        /\ \E w \in Workers :
             /\ workers[w] # Idle
             /\ FileOf(workers[w].task) = << sid, f >>

\* C20: when shutdown has completed no capture child is running.
C20_NoChildLeftRunning ==
    pc = "done" =>
      \A sid \in DOMAIN sessions : sessions[sid].child # "running"

=============================================================================
